---------------------------- MODULE Spec2Model ----------------------------
(***************************************************************************)
(* Brave Search MCP server: the in-memory TTL cache (search_cache,         *)
(* cache_ttl, is_cache_valid), the cached tool template (web_search,       *)
(* news_search), the multi-strategy smart_search loop and the sectioned    *)
(* research_search, over a simulated clock and a nondeterministic search   *)
(* backend.                                                                *)
(***************************************************************************)
EXTENDS Integers, Sequences, FiniteSets, TLC

VARIABLES search_cache, now, inv, lastPut, got, started, BRAVE_API_KEY, wire

vars == <<search_cache, now, inv, lastPut, got, started, BRAVE_API_KEY, wire>>

(***************************************************************************)
(* Bounds of the model.                                                    *)
(***************************************************************************)
\* clock ticks per hour of wall-clock time
TicksPerHour == 2
\* the simulated clock runs from 0 to MaxTime
MaxTime == 3
\* a backend response holds 0..MaxRecords records
MaxRecords == 2
\* callers pass max_attempts in 1..MaxAttemptsArg
MaxAttemptsArg == 3
\* smart_search and research_search invocations started in one run
MaxInvocations == 2
\* web_search and news_search invocations started in one run
MaxToolInvocations == 3
\* concurrent invocations (cooperative tasks) sharing the one cache
NumProcs == 2

(***************************************************************************)
(* Program constants.                                                      *)
(***************************************************************************)
\* cache_ttl = timedelta(hours=1)
CacheTtlHours == 1

cache_ttl == CacheTtlHours * TicksPerHour

Procs == 1..NumProcs
\* the flow that runs the sequential specifications
MainProc == 1

RecordCounts == 0..MaxRecords

(***************************************************************************)
(* Strings are sequences of tokens, so that quoting a query and joining    *)
(* the parts of a cache key are real operations on text.                   *)
(***************************************************************************)
QUOTE == "dq"
COLON == ":"

\* the caller's queries: a plain one, and the same one already quoted
Queries == { <<"rust">>, <<QUOTE, "rust", QUOTE>> }

\* freshness filters of the provider; <<>> is "no filter"
Freshness == { <<>>, <<"pd">>, <<"pw">>, <<"pm">>, <<"py">> }

BackendErrorKinds ==
    {"Unauthorized", "RateLimited", "InvalidRequest", "Unavailable", "Malformed"}

\* BRAVE_API_KEY = os.getenv("BRAVE_API_KEY"): None when the variable is unset
NoKey == "None"
\* the credential of the server as deployed
ConfiguredKey == "BSA-key-1"
\* the values the environment can give the credential
ApiKeys == {NoKey, ConfiguredKey, "BSA-key-2"}

\* SEARCH_DEFAULT_COUNT=10
DefaultCount == 10

\* the outbound request: q, count, offset, freshness and result_filter as
\* query parameters (<<>> is a filter left out), the credential in the
\* X-Subscription-Token header
SearchRequest(q, count, offset, freshness, result_filter, token) ==
    [q |-> q, count |-> count, offset |-> offset, freshness |-> freshness,
     result_filter |-> result_filter, token |-> token]

\* the content type an operation asks for
ResultFilter(op) == IF op = "news_search" THEN "news" ELSE "web"

\* the request an invocation sends for query q under freshness filter f
RequestOf(st, q, f, result_filter) ==
    SearchRequest(q, st.count, st.offset, f, result_filter, st.token)

(***************************************************************************)
(* ResultSet: the record count stands for the ordered records; the         *)
(* metadata is strategyUsed, attemptCount and the threshold-not-met flag.  *)
(***************************************************************************)
ResultSet(n, strategy, attempt, flag) ==
    [records |-> n, strategyUsed |-> strategy, attemptCount |-> attempt,
     thresholdNotMet |-> flag]

\* the place of a ResultSet where there is none
NoResult == ResultSet(0, 0, 0, FALSE)

(***************************************************************************)
(* Cache                                                                   *)
(***************************************************************************)
\* faulty variant: the operation left out of the key
cache_key_no_operation(operation, param1, param2) == param1 \o <<COLON>> \o param2

\* cache_key = f"operation:{param1}:{param2}"
cache_key(operation, param1, param2) ==
    <<operation>> \o <<COLON>> \o param1 \o <<COLON>> \o param2

\* is_cache_valid(timestamp) at clock reading t
is_cache_valid(timestamp, t) == t - timestamp < cache_ttl

\* faulty variant: the validity test left out of the lookup
CacheLookupNoTtl(cache, key, t) ==
    IF key \in DOMAIN cache THEN <<cache[key].value>> ELSE <<>>

\* if cache_key in search_cache: cached_result, timestamp = search_cache[cache_key]
\*     if is_cache_valid(timestamp): return cached_result
\* <<v>> is a hit with value v, <<>> is a miss
CacheLookup(cache, key, t) ==
    IF key \in DOMAIN cache /\ is_cache_valid(cache[key].timestamp, t)
    THEN <<cache[key].value>>
    ELSE <<>>

\* faulty variant: the result is returned without being cached
CacheStoreDropped(cache, key, result, t) == cache

\* faulty variant: the value of a stored entry is replaced, its timestamp kept
CacheStoreOldTimestamp(cache, key, result, t) ==
    [k \in (DOMAIN cache) \cup {key} |->
        IF k = key
        THEN [value |-> result,
              timestamp |-> IF key \in DOMAIN cache THEN cache[key].timestamp ELSE t]
        ELSE cache[k]]

\* faulty variant: an entry already stored is kept (setdefault)
CacheStoreKeepFirst(cache, key, result, t) ==
    IF key \in DOMAIN cache THEN cache
    ELSE [k \in (DOMAIN cache) \cup {key} |->
             IF k = key THEN [value |-> result, timestamp |-> t] ELSE cache[k]]

\* search_cache[cache_key] = (result, datetime.now())
CacheStore(cache, key, result, t) ==
    [k \in (DOMAIN cache) \cup {key} |->
        IF k = key THEN [value |-> result, timestamp |-> t] ELSE cache[k]]

\* search_cache = {}
EmptyCache == [k \in {} |-> [value |-> NoResult, timestamp |-> 0]]

(***************************************************************************)
(* Search Backend Client: one call either returns a ResultSet or raises a  *)
(* BackendError of one of the five kinds.                                  *)
(***************************************************************************)
BackendOk(n) == [ok |-> TRUE, records |-> n, error |-> ""]
BackendRaise(kind) == [ok |-> FALSE, records |-> 0, error |-> kind]

BackendOutcomes ==
    {BackendOk(n) : n \in RecordCounts} \cup {BackendRaise(k) : k \in BackendErrorKinds}

\* what the provider's HTTP endpoint can answer: the transport fails, or a
\* status comes back with a body that parses into records, does not parse,
\* or parses into something other than the grouped result sections
Statuses == {200, 400, 401, 403, 404, 422, 429, 500, 503}
Bodies == {"json", "garbled", "mismatch"}
HttpResponse(transport, status, body, records) ==
    [transport |-> transport, status |-> status, body |-> body, records |-> records]
Responses ==
    {HttpResponse("ok", s, b, n) : s \in Statuses, b \in Bodies, n \in {0, MaxRecords}}
        \cup {HttpResponse(t, 0, "garbled", 0) : t \in {"timeout", "connection"}}

\* faulty variant: a response without records treated as a failure
make_brave_request_empty_fails(response) ==
    IF response.transport # "ok" \/ response.status >= 500 THEN BackendRaise("Unavailable")
    ELSE IF response.status \in {401, 403} THEN BackendRaise("Unauthorized")
    ELSE IF response.status = 429 THEN BackendRaise("RateLimited")
    ELSE IF response.status >= 400 THEN BackendRaise("InvalidRequest")
    ELSE IF response.body # "json" \/ response.records = 0 THEN BackendRaise("Malformed")
    ELSE BackendOk(response.records)

\* make_brave_request(endpoint, params, session) and extract_search_results(data):
\* the transport and the status decide first, then the body
make_brave_request(response) ==
    IF response.transport # "ok" \/ response.status >= 500 THEN BackendRaise("Unavailable")
    ELSE IF response.status \in {401, 403} THEN BackendRaise("Unauthorized")
    ELSE IF response.status = 429 THEN BackendRaise("RateLimited")
    ELSE IF response.status >= 400 THEN BackendRaise("InvalidRequest")
    ELSE IF response.body # "json" THEN BackendRaise("Malformed")
    ELSE BackendOk(response.records)

\* the last exchange with the provider: its answer and what the client made of it
NoExchange == [response |-> HttpResponse("none", 0, "garbled", 0), outcome |-> BackendOk(0)]
Exchange(response) == [response |-> response, outcome |-> make_brave_request(response)]

(***************************************************************************)
(* One invocation (a tool call) and what it has done so far.               *)
(*   pc        "idle", "await" (suspended in a backend call) or "done"     *)
(*   idx       the strategy or section whose backend call is in flight     *)
(*   best      best_result_so_far: <<>> or <<ResultSet>>                   *)
(*   attempts  the log of the attempts made, in order                      *)
(*   issued    the cache keys of the backend calls issued, in order        *)
(*   sections  the sections research_search has built, in order            *)
(*   ret       what the orchestrator handed back: a ResultSet, sections,   *)
(*             or a raised BackendError                                    *)
(*   reply     what the tool returns to the external caller                *)
(*   startEmpty  the cache was empty when the invocation started           *)
(*   count, offset  the caller's paging parameters                         *)
(*   token     the credential the session attaches to its requests         *)
(*   requests  the requests sent to the search backend, in order           *)
(*   log       the messages the invocation has logged, in order            *)
(***************************************************************************)
NoRet == [kind |-> "none", result |-> <<>>, error |-> ""]
RetResult(r) == [kind |-> "result", result |-> <<r>>, error |-> ""]
RetSections == [kind |-> "sections", result |-> <<>>, error |-> ""]
RetRaised(kind) == [kind |-> "raised", result |-> <<>>, error |-> kind]

NoReply == [shape |-> "none", error |-> ""]
ReplyValue == [shape |-> "value", error |-> ""]
\* return {"error": str(e)}
ReplyError(message) == [shape |-> "error", error |-> message]

\* one entry of the log: "ok" (fetched), "hit" (from the cache) or "raised"
Attempt(kind, result, error) == [kind |-> kind, result |-> result, error |-> error]

Idle ==
    [pc |-> "idle", op |-> "none", query |-> <<>>, freshness |-> <<>>,
     maxAttempts |-> 0, threshold |-> 0, depth |-> "none",
     idx |-> 0, best |-> <<>>, attempts |-> <<>>, issued |-> <<>>,
     sections |-> <<>>, ret |-> NoRet, reply |-> NoReply, startEmpty |-> FALSE,
     count |-> 0, offset |-> 0, token |-> NoKey, requests |-> <<>>, log |-> <<>>]

Min(a, b) == IF a < b THEN a ELSE b

\* faulty variant: the except clause left out, the error leaves the tool raised
FinishRaises(st, ret) ==
    [st EXCEPT !.pc = "done", !.idx = 0, !.ret = ret,
               !.reply = IF ret.kind = "raised" THEN NoReply ELSE ReplyValue]

\* logger.error(f"Tool failed: {str(e)}")
LogError(message) == <<"Tool failed:", message>>

\* the tool has returned: the orchestrator's outcome and the caller's reply;
\* an error that reached the tool is logged and turned into the error object
Finish(st, ret) ==
    [st EXCEPT !.pc = "done", !.idx = 0, !.ret = ret,
               !.reply = IF ret.kind = "raised" THEN ReplyError(ret.error)
                         ELSE ReplyValue,
               !.log = IF ret.kind = "raised" THEN Append(@, LogError(ret.error))
                       ELSE @]

\* faulty variant: the validation left out, the call goes to the backend
RejectedSkipped(st) ==
    [st EXCEPT !.pc = "await", !.idx = 1,
               !.issued = Append(@, <<st.op>>),
               !.requests = Append(@, RequestOf(st, st.query, st.freshness,
                                                   ResultFilter(st.op)))]

\* if not param1: return {"error": "param1 is required"}
Rejected(st) ==
    [st EXCEPT !.pc = "done", !.reply = ReplyError("query is required")]

(***************************************************************************)
(* The record of the puts made since the last clear, kept beside the       *)
(* cache: <<key, value, storedAt>> of the latest put on each key.          *)
(***************************************************************************)
Remember(log, key, value, t) ==
    {x \in log : x[1] # key} \cup {<<key, value, t>>}

(***************************************************************************)
(* Tool template (web_search, news_search): validation, cache check,       *)
(* backend call, cache write on success, error object on BackendError.     *)
(***************************************************************************)
ToolOps == {"web_search", "news_search"}

\* the synchronous part of the tool, up to its first await
ToolBegin(st, cache, t) ==
    IF st.query = <<>> THEN Rejected(st)
    ELSE LET key == cache_key(st.op, st.query, st.freshness)
             hit == CacheLookup(cache, key, t)
         IN IF hit # <<>>
            THEN Finish([st EXCEPT !.attempts = Append(@, Attempt("hit", hit[1], ""))],
                        RetResult(hit[1]))
            ELSE [st EXCEPT !.pc = "await", !.idx = 1, !.issued = Append(@, key),
                            !.requests = Append(@, RequestOf(st, st.query, st.freshness,
                                                   ResultFilter(st.op)))]

\* the tool is entered by a session holding the credential token: the
\* invocation up to its first suspension or its return
ToolEntry(op, q, count, offset, f, token, cache, t) ==
    ToolBegin([Idle EXCEPT !.op = op, !.query = q, !.freshness = f,
                           !.count = count, !.offset = offset,
                           !.token = token,
                           !.startEmpty = (DOMAIN cache = {})],
              cache, t)

\* one call of web_search or news_search with the caller's parameters
ToolCall(p, op, q, count, offset, f) ==
    /\ inv[p].pc \in {"idle", "done"}
    /\ started < MaxToolInvocations
    /\ inv' = [inv EXCEPT ![p] =
                 ToolEntry(op, q, count, offset, f, BRAVE_API_KEY, search_cache, now)]
    /\ started' = started + 1
    /\ UNCHANGED <<search_cache, now, lastPut, got, BRAVE_API_KEY, wire>>

\* the call with count and offset left at their defaults
ToolStart(p, op, q, f) == ToolCall(p, op, q, DefaultCount, 0, f)

\* faulty variant: the failed request, headers included, goes into the log
ToolEndLogsRequest(st, outcome) ==
    LET result == ResultSet(outcome.records, 0, 0, FALSE)
    IN IF outcome.ok
       THEN Finish([st EXCEPT !.attempts = Append(@, Attempt("ok", result, ""))],
                   RetResult(result))
       ELSE Finish([st EXCEPT !.attempts =
                                 Append(@, Attempt("raised", NoResult, outcome.error)),
                              !.log = Append(@, <<"Request failed:",
                                                  st.requests[Len(st.requests)].token>>)],
                   RetRaised(outcome.error))

\* the rest of the tool once its backend call has returned or raised
ToolEnd(st, outcome) ==
    LET result == ResultSet(outcome.records, 0, 0, FALSE)
    IN IF outcome.ok
       THEN Finish([st EXCEPT !.attempts = Append(@, Attempt("ok", result, ""))],
                   RetResult(result))
       ELSE Finish([st EXCEPT !.attempts =
                                 Append(@, Attempt("raised", NoResult, outcome.error))],
                   RetRaised(outcome.error))

\* faulty variant: the cache write moved out of the try block, so that a
\* failed call stores an empty result
ToolDeliverCachesFailure(p, outcome) ==
    /\ inv[p].pc = "await"
    /\ inv[p].op \in ToolOps
    /\ LET st == inv[p]
           key == cache_key(st.op, st.query, st.freshness)
           result == ResultSet(outcome.records, 0, 0, FALSE)
       IN /\ search_cache' = CacheStore(search_cache, key, result, now)
          /\ lastPut' = Remember(lastPut, key, result, now)
          /\ inv' = [inv EXCEPT ![p] =
                IF outcome.ok
                THEN Finish([st EXCEPT !.attempts = Append(@, Attempt("ok", result, ""))],
                            RetResult(result))
                ELSE Finish([st EXCEPT !.attempts =
                                Append(@, Attempt("raised", NoResult, outcome.error))],
                            RetRaised(outcome.error))]
    /\ UNCHANGED <<now, got, started, BRAVE_API_KEY>>

\* result = await make_brave_request(...); search_cache[cache_key] = (result, now)
\* except BraveSearchError as e: return {"error": str(e)}
ToolDeliver(p, outcome) ==
    /\ inv[p].pc = "await"
    /\ inv[p].op \in ToolOps
    /\ LET st == inv[p]
           key == cache_key(st.op, st.query, st.freshness)
           result == ResultSet(outcome.records, 0, 0, FALSE)
       IN /\ inv' = [inv EXCEPT ![p] = ToolEnd(st, outcome)]
          /\ IF outcome.ok
             THEN /\ search_cache' = CacheStore(search_cache, key, result, now)
                  /\ lastPut' = Remember(lastPut, key, result, now)
             ELSE UNCHANGED <<search_cache, lastPut>>
    /\ UNCHANGED <<now, got, started, BRAVE_API_KEY>>

\* the backend call of the tool returns or raises
ToolReturn(p, outcome) == ToolDeliver(p, outcome) /\ UNCHANGED wire

\* the provider answers the tool's request and the client turns the answer
\* into the call's outcome
ToolRespond(p, response) ==
    /\ ToolDeliver(p, make_brave_request(response))
    /\ wire' = Exchange(response)

(***************************************************************************)
(* The cache on its own: put, get and clear under the simulated clock.     *)
(***************************************************************************)
Put(key, value) ==
    /\ search_cache' = CacheStore(search_cache, key, value, now)
    /\ lastPut' = Remember(lastPut, key, value, now)
    /\ UNCHANGED <<now, inv, got, started, BRAVE_API_KEY, wire>>

Get(key) ==
    /\ got' = [key |-> key, value |-> CacheLookup(search_cache, key, now), at |-> now]
    /\ UNCHANGED <<search_cache, now, inv, lastPut, started, BRAVE_API_KEY, wire>>

\* search_cache.clear()
Clear ==
    /\ search_cache # EmptyCache
    /\ search_cache' = EmptyCache
    /\ lastPut' = {}
    /\ UNCHANGED <<now, inv, got, started, BRAVE_API_KEY, wire>>

\* the clock advances
Tick ==
    /\ now < MaxTime
    /\ now' = now + 1
    /\ UNCHANGED <<search_cache, inv, lastPut, got, started, BRAVE_API_KEY, wire>>

Init ==
    /\ search_cache = EmptyCache
    /\ now = 0
    /\ inv = [p \in Procs |-> Idle]
    /\ lastPut = {}
    /\ got = [key |-> <<>>, value |-> <<>>, at |-> 0]
    /\ started = 0
    /\ BRAVE_API_KEY = ConfiguredKey
    /\ wire = NoExchange

\* keys and values the cache is exercised with on its own
CacheKeys ==
    {cache_key("web_search", <<"rust">>, <<>>),
     cache_key("smart_search", <<"rust">>, <<"py">>)}
CacheValues == {ResultSet(n, 0, 0, FALSE) : n \in {0, MaxRecords}}

NextCache ==
    \/ \E k \in CacheKeys, v \in CacheValues : Put(k, v)
    \/ \E k \in CacheKeys : Get(k)
    \/ Clear
    \/ Tick

SpecCache == Init /\ [][NextCache]_vars

(***************************************************************************)
(* C1: after put(k, v) at time s with no later put or clear on k, get(k)   *)
(* at time t returns v if and only if t - s < ttl; from t - s = ttl on it  *)
(* returns absent, as it does for a key that was never stored.             *)
(***************************************************************************)
C1_GetWithinTtl ==
    \A k \in CacheKeys :
        LET puts == {x \in lastPut : x[1] = k}
        IN CacheLookup(search_cache, k, now) =
              IF \E x \in puts : now - x[3] < cache_ttl
              THEN <<(CHOOSE x \in puts : TRUE)[2]>>
              ELSE <<>>

\* a get at exactly t - s = ttl found the entry still stored and answered absent
C1_Witness ==
    /\ got.at = now
    /\ got.value = <<>>
    /\ got.key \in DOMAIN search_cache
    /\ \E x \in lastPut : x[1] = got.key /\ now - x[3] = cache_ttl

\* a get one tick before expiry answered the stored value
C1_WitnessHit ==
    /\ got.at = now
    /\ \E x \in lastPut : x[1] = got.key /\ now - x[3] = cache_ttl - 1
                          /\ got.value = <<x[2]>>

(***************************************************************************)
(* smart_search: the multi-strategy loop.  try_strategy is the caching     *)
(* pattern around one backend call; the loop judges whatever try_strategy  *)
(* returns, a cached ResultSet like a fetched one.                         *)
(***************************************************************************)
\* f'"{query}"'
Quoted(query) == <<QUOTE>> \o query \o <<QUOTE>>

\* faulty variant: the recency strategy listed before the quoted one
strategies_recency_second(query) ==
    << [query |-> query, freshness |-> <<>>],
       [query |-> query, freshness |-> <<"py">>],
       [query |-> Quoted(query), freshness |-> <<>>] >>

\* strategies = [{"query": query, "params": {}},
\*               {"query": f'"{query}"', "params": {}},
\*               {"query": query, "params": {"freshness": "py"}}]
strategies(query) ==
    << [query |-> query, freshness |-> <<>>],
       [query |-> Quoted(query), freshness |-> <<>>],
       [query |-> query, freshness |-> <<"py">>] >>

\* the ordered strategy list, capped at max_attempts
StrategyList(query, maxAttempts) ==
    SubSeq(strategies(query), 1, Min(maxAttempts, Len(strategies(query))))

\* the request of strategy i of the invocation's list
StrategyRequest(st, i) ==
    RequestOf(st, StrategyList(st.query, st.maxAttempts)[i].query,
              StrategyList(st.query, st.maxAttempts)[i].freshness, ResultFilter(st.op))

StrategyKey(strategy) == cache_key("smart_search", strategy.query, strategy.freshness)

\* result_is_good_enough(result): the record count against result_threshold
result_is_good_enough(result, threshold) == result.records >= threshold

\* best_result_so_far after one more result: a later result replaces the
\* best only with strictly more records, so the earliest wins a tie
BetterOf(best, result) ==
    IF best = <<>> \/ result.records > best[1].records THEN <<result>> ELSE best

\* every attempt of the invocation raised
AllRaised(st) == \A i \in 1..Len(st.attempts) : st.attempts[i].kind = "raised"

\* return best_result_so_far: the aggregated error if every attempt raised,
\* else the best result annotated with the attempt count and the flag
SmartExhausted(st) ==
    IF AllRaised(st)
    THEN Finish(st, RetRaised("Unavailable"))
    ELSE Finish(st, RetResult([st.best[1] EXCEPT
                                  !.attemptCount = Len(st.attempts),
                                  !.thresholdNotMet = TRUE]))

\* the ResultSet of the backend call of strategy i: strategyUsed and
\* attemptCount are its place in the list, counted from 1
FreshResult(n, i) == ResultSet(n, i, i, FALSE)

RECURSIVE SmartLoop(_, _, _, _)

\* faulty variant: the loop keeps going after a result that is good enough
SmartStepNoStop(st, result, cache, t) ==
    SmartLoop([st EXCEPT !.best = BetterOf(@, result)], Len(st.attempts) + 1, cache, t)

\* faulty variant: a later result replaces the best on a tie
SmartStepLastWins(st, result, cache, t) ==
    IF result_is_good_enough(result, st.threshold)
    THEN Finish(st, RetResult(result))
    ELSE SmartLoop([st EXCEPT !.best =
                       IF @ = <<>> \/ result.records >= @[1].records
                       THEN <<result>> ELSE @],
                   Len(st.attempts) + 1, cache, t)

\* faulty variant: a result under the threshold is returned as it is
SmartStepAnyResult(st, result, cache, t) ==
    Finish(st, RetResult(result))

\* the body of the loop after try_strategy returned result for the attempt
\* just logged:
\*     if result_is_good_enough(result): return result
\* and on to the next strategy
SmartStep(st, result, cache, t) ==
    IF result_is_good_enough(result, st.threshold)
    THEN Finish(st, RetResult(result))
    ELSE SmartLoop([st EXCEPT !.best = BetterOf(@, result)],
                   Len(st.attempts) + 1, cache, t)

\* faulty variant: return best_result_so_far indented into the loop body
SmartLoopOnce(st, i, cache, t) ==
    IF i > 1
    THEN SmartExhausted(st)
    ELSE LET key == StrategyKey(StrategyList(st.query, st.maxAttempts)[i])
             hit == CacheLookup(cache, key, t)
         IN IF hit = <<>>
            THEN [st EXCEPT !.pc = "await", !.idx = i, !.issued = Append(@, key),
                            !.requests = Append(@, StrategyRequest(st, i))]
            ELSE SmartStep([st EXCEPT !.attempts = Append(@, Attempt("hit", hit[1], ""))],
                           hit[1], cache, t)

\* for attempt, strategy in enumerate(strategies): result = await try_strategy(strategy)
\* run from strategy i up to the next await or the return: a cache hit is
\* try_strategy's result at once, a miss issues the backend call
SmartLoop(st, i, cache, t) ==
    IF i > Len(StrategyList(st.query, st.maxAttempts))
    THEN SmartExhausted(st)
    ELSE LET key == StrategyKey(StrategyList(st.query, st.maxAttempts)[i])
             hit == CacheLookup(cache, key, t)
         IN IF hit = <<>>
            THEN [st EXCEPT !.pc = "await", !.idx = i, !.issued = Append(@, key),
                            !.requests = Append(@, StrategyRequest(st, i))]
            ELSE SmartStep([st EXCEPT !.attempts =
                               Append(@, Attempt("hit", hit[1], ""))],
                           hit[1], cache, t)

\* faulty variant: the raised attempt counted as a result without records
SmartSwallowAsEmpty(st, cache, t) ==
    SmartLoop([st EXCEPT !.best = BetterOf(@, FreshResult(0, st.idx))],
              Len(st.attempts) + 1, cache, t)

\* a raised attempt is swallowed: logged, and the loop goes on
SmartSwallow(st, cache, t) == SmartLoop(st, Len(st.attempts) + 1, cache, t)

\* smart_search is entered by a session holding the credential token
SmartEntry(q, m, thr, token, cache, t) ==
    LET st == [Idle EXCEPT !.op = "smart_search", !.query = q, !.maxAttempts = m,
                           !.threshold = thr, !.count = DefaultCount,
                           !.token = token,
                           !.startEmpty = (DOMAIN cache = {})]
    IN IF q = <<>> THEN Rejected(st) ELSE SmartLoop(st, 1, cache, t)

\* the rest of smart_search once the backend call of strategy idx has
\* returned or raised; cache is the cache after the write of a success
SmartEnd(st, outcome, cache, t) ==
    LET result == FreshResult(outcome.records, st.idx)
    IN IF outcome.ok
       THEN SmartStep([st EXCEPT !.attempts = Append(@, Attempt("ok", result, ""))],
                      result, cache, t)
       ELSE SmartSwallow([st EXCEPT !.attempts =
                                       Append(@, Attempt("raised", NoResult, outcome.error)),
                                    !.log = Append(@, LogError(outcome.error))],
                         cache, t)

\* faulty variant: the annotation is written on the cached object itself,
\* which the entry it was read from still holds
CacheAfterAnnotationInPlace(cache, st) ==
    IF st.pc = "done" /\ st.ret.kind = "result"
    THEN [k \in DOMAIN cache |->
            IF \E i \in 1..Len(st.attempts) :
                  /\ st.attempts[i].kind = "hit"
                  /\ k = StrategyKey(StrategyList(st.query, st.maxAttempts)[i])
                  /\ st.attempts[i].result = cache[k].value
                  /\ st.attempts[i].result.strategyUsed = st.ret.result[1].strategyUsed
            THEN [cache[k] EXCEPT !.value = st.ret.result[1]]
            ELSE cache[k]]
    ELSE cache

\* the cache once st has handed back its ResultSet: the attempt count and
\* the flag are set on a copy, the entries hold what was stored
CacheAfterAnnotation(cache, st) == cache

SmartStart(p, q, m, thr) ==
    /\ inv[p].pc \in {"idle", "done"}
    /\ started < MaxInvocations
    /\ inv' = [inv EXCEPT ![p] =
                 SmartEntry(q, m, thr, BRAVE_API_KEY, search_cache, now)]
    /\ search_cache' = CacheAfterAnnotation(search_cache, inv'[p])
    /\ started' = started + 1
    /\ UNCHANGED <<now, lastPut, got, BRAVE_API_KEY, wire>>

\* the backend call of strategy idx returns or raises
SmartReturn(p, outcome) ==
    /\ inv[p].pc = "await"
    /\ inv[p].op = "smart_search"
    /\ LET st == inv[p]
           key == StrategyKey(StrategyList(st.query, st.maxAttempts)[st.idx])
           result == FreshResult(outcome.records, st.idx)
       IN IF outcome.ok
          THEN LET cache == CacheStore(search_cache, key, result, now)
               IN /\ inv' = [inv EXCEPT ![p] = SmartEnd(st, outcome, cache, now)]
                  /\ search_cache' = CacheAfterAnnotation(cache, inv'[p])
                  /\ lastPut' = Remember(lastPut, key, result, now)
          ELSE /\ inv' = [inv EXCEPT ![p] = SmartEnd(st, outcome, search_cache, now)]
               /\ search_cache' = CacheAfterAnnotation(search_cache, inv'[p])
               /\ UNCHANGED lastPut
    /\ UNCHANGED <<now, got, started, BRAVE_API_KEY, wire>>

Thresholds == 1..MaxRecords

\* the loop treats every kind of BackendError alike: one kind the taxonomy
\* calls transient and one it does not stand for the five
SmartErrorKinds == {"Unavailable", "RateLimited"}
SmartOutcomes ==
    {BackendOk(n) : n \in RecordCounts} \cup {BackendRaise(k) : k \in SmartErrorKinds}

NextSmart ==
    \/ \E q \in Queries \cup {<<>>}, m \in 1..MaxAttemptsArg, thr \in Thresholds :
          SmartStart(MainProc, q, m, thr)
    \/ \E o \in SmartOutcomes : SmartReturn(MainProc, o)
    \/ Clear
    \/ Tick

SpecSmart == Init /\ [][NextSmart]_vars

(***************************************************************************)
(* Claims about smart_search.                                              *)
(***************************************************************************)
SmartInv(st) == st.op = "smart_search" /\ st.query # <<>>

\* attempt i of st returned a ResultSet (fetched or cached) meeting the threshold
GoodAt(st, i) ==
    /\ st.attempts[i].kind # "raised"
    /\ st.attempts[i].result.records >= st.threshold

\* the strategies of st's list
ListOf(st) == StrategyList(st.query, st.maxAttempts)

(***************************************************************************)
(* C2: from an empty cache, the ResultSet returned is the one of the first *)
(* strategy in list order whose record count reaches resultThreshold, and  *)
(* no backend call is issued for any strategy after that one.              *)
(***************************************************************************)
C2_FirstGoodWins ==
    \A p \in Procs :
        LET st == inv[p]
        IN (SmartInv(st) /\ st.startEmpty) =>
              \A i \in 1..Len(st.attempts) :
                  GoodAt(st, i) =>
                      /\ i = Len(st.attempts)
                      /\ st.pc = "done"
                      /\ st.ret = RetResult(st.attempts[i].result)
                      /\ st.attempts[i].kind = "ok"
                      /\ Len(st.issued) = i
                      /\ \A j \in 1..i : st.issued[j] = StrategyKey(ListOf(st)[j])

\* the second of three strategies met the threshold and the third was never called
C2_Witness ==
    LET st == inv[MainProc]
    IN /\ SmartInv(st) /\ st.startEmpty /\ st.pc = "done"
       /\ Len(ListOf(st)) = 3
       /\ Len(st.attempts) = 2 /\ GoodAt(st, 2)
       /\ st.attempts[1].kind = "ok"
       /\ Len(st.issued) = 2

\* the attempts of st that returned a ResultSet
Returned(st) == {i \in 1..Len(st.attempts) : st.attempts[i].kind # "raised"}

\* the earliest among the attempts with the highest record count
BestAttempt(st) ==
    CHOOSE i \in Returned(st) :
        \A j \in Returned(st) :
            \/ st.attempts[j].result.records < st.attempts[i].result.records
            \/ st.attempts[j].result.records = st.attempts[i].result.records /\ i <= j

(***************************************************************************)
(* C3: if no attempted strategy returns at least resultThreshold records,  *)
(* the ResultSet returned is the one with the highest record count among   *)
(* the attempts, the earliest strategy's on a tie.                         *)
(***************************************************************************)
C3_FallbackIsMax ==
    \A p \in Procs :
        LET st == inv[p]
        IN (/\ SmartInv(st) /\ st.pc = "done"
            /\ Returned(st) # {}
            /\ \A i \in Returned(st) : ~GoodAt(st, i)) =>
              /\ st.ret.kind = "result"
              /\ st.ret.result[1].records = st.attempts[BestAttempt(st)].result.records
              /\ st.ret.result[1].strategyUsed =
                     st.attempts[BestAttempt(st)].result.strategyUsed

\* three attempts under the threshold, the last two tied for the most records
C3_Witness ==
    LET st == inv[MainProc]
    IN /\ SmartInv(st) /\ st.pc = "done" /\ st.threshold = 2
       /\ Len(st.attempts) = 3 /\ Returned(st) = {1, 2, 3}
       /\ st.attempts[1].result.records = 0
       /\ st.attempts[2].result.records = 1
       /\ st.attempts[3].result.records = 1
       /\ st.ret.result[1].strategyUsed = 2

C4_WitnessRecovered ==
    LET st == inv[MainProc]
    IN /\ SmartInv(st) /\ st.pc = "done"
       /\ Len(st.attempts) = 2
       /\ st.attempts[1].kind = "raised" /\ st.attempts[2].kind = "ok"
       /\ st.ret.kind = "result"

\* the backend calls of st so far: those of its fetched or raised attempts,
\* and the one in flight
CallsOf(st) ==
    Cardinality({j \in 1..Len(st.attempts) : st.attempts[j].kind # "hit"})
        + (IF st.pc = "await" THEN 1 ELSE 0)

(***************************************************************************)
(* C6 as stated: when the cache holds a valid entry for the key of the     *)
(* strategy being tried, smartSearch returns that cached ResultSet at      *)
(* once and issues no backend call for that strategy or any later one.     *)
(***************************************************************************)
C6_HitReturnsAtOnce ==
    \A p \in Procs :
        LET st == inv[p]
        IN SmartInv(st) =>
              \A i \in 1..Len(st.attempts) :
                  st.attempts[i].kind = "hit" =>
                      /\ i = Len(st.attempts)
                      /\ st.pc = "done"
                      /\ st.ret = RetResult(st.attempts[i].result)
                      /\ Len(st.issued) = i - 1

(***************************************************************************)
(* C6 amended: a valid entry for the key of the strategy being tried       *)
(* stands for that strategy's backend call, which is not issued.  If the   *)
(* cached ResultSet has at least resultThreshold records it is returned at *)
(* once as stored, strategyUsed being the strategy that produced it, and   *)
(* no later strategy is called; if it has fewer, the search goes on to the *)
(* next strategy.                                                          *)
(***************************************************************************)
C6_HitJudgedLikeFetch ==
    \A p \in Procs :
        LET st == inv[p]
        IN SmartInv(st) =>
              /\ Len(st.issued) = CallsOf(st)
              /\ \A i \in 1..Len(st.attempts) :
                    st.attempts[i].kind = "hit" =>
                       /\ \A j \in 1..Len(st.issued) :
                              st.issued[j] # StrategyKey(ListOf(st)[i])
                       /\ GoodAt(st, i) =>
                              /\ i = Len(st.attempts)
                              /\ st.pc = "done"
                              /\ st.ret = RetResult(st.attempts[i].result)
                       /\ (~GoodAt(st, i) /\ i < Len(ListOf(st))) =>
                              \/ Len(st.attempts) > i
                              \/ st.pc = "await" /\ st.idx = i + 1

\* the second strategy was served from an entry the first strategy of an
\* earlier search had produced, and that ResultSet was returned
C6_Witness ==
    LET st == inv[MainProc]
    IN /\ SmartInv(st) /\ st.pc = "done"
       /\ Len(st.attempts) = 2
       /\ st.attempts[2].kind = "hit" /\ GoodAt(st, 2)
       /\ st.ret.kind = "result"
       /\ st.ret.result[1].strategyUsed = 1
       /\ Len(st.issued) = 1

C8_FlagIffBelowThreshold ==
    \A p \in Procs :
        LET st == inv[p]
        IN (SmartInv(st) /\ st.pc = "done" /\ st.ret.kind = "result") =>
              /\ st.ret.result[1].thresholdNotMet
                    <=> st.ret.result[1].records < st.threshold
              /\ (/\ Len(st.attempts) = Len(ListOf(st))
                  /\ \A i \in 1..Len(st.attempts) :
                        st.attempts[i].kind = "ok" /\ st.attempts[i].result.records = 0)
                    => /\ st.ret.result[1].strategyUsed = 1
                       /\ st.ret.result[1].records = 0
                       /\ st.ret.result[1].thresholdNotMet

\* all three strategies returned 0 records
C8_Witness ==
    LET st == inv[MainProc]
    IN /\ SmartInv(st) /\ st.pc = "done"
       /\ Len(st.attempts) = 3
       /\ \A i \in 1..3 : st.attempts[i].kind = "ok" /\ st.attempts[i].result.records = 0
       /\ st.ret.result[1].thresholdNotMet
       /\ st.ret.result[1].strategyUsed = 1

\* a cached ResultSet under the threshold came back as the flagged fallback
C8_WitnessHit ==
    LET st == inv[MainProc]
    IN /\ SmartInv(st) /\ st.pc = "done"
       /\ Len(st.attempts) = 1 /\ st.attempts[1].kind = "hit"
       /\ st.ret.kind = "result" /\ st.ret.result[1].thresholdNotMet

(***************************************************************************)
(* web_search and news_search, one flow at a time.                         *)
(***************************************************************************)
ToolQueries == {<<"rust">>, <<>>}
ToolFreshness == {<<>>, <<"pw">>}

NextTool ==
    \/ \E op \in ToolOps, q \in ToolQueries, f \in ToolFreshness :
          ToolStart(MainProc, op, q, f)
    \/ \E o \in BackendOutcomes : ToolReturn(MainProc, o)
    \/ Clear
    \/ Tick

SpecTool == Init /\ [][NextTool]_vars

\* the request of st has an entry put less than a TTL ago
FetchedWithinTtl(st) ==
    {x \in lastPut : /\ x[1] = cache_key(st.op, st.query, st.freshness)
                     /\ now - x[3] < cache_ttl}

(***************************************************************************)
(* C5: once the backend call of a SearchRequest has succeeded, every       *)
(* further execution of the same request while the entry is within its     *)
(* TTL issues no backend call and returns the ResultSet of that first      *)
(* call.                                                                   *)
(***************************************************************************)
C5_RepeatServedFromCache ==
    [][\A p \in Procs :
          /\ (started' = started + 1 /\ inv'[p] # inv[p] /\ inv'[p].op \in ToolOps
                /\ FetchedWithinTtl(inv'[p]) # {})
                => /\ inv'[p].pc = "done"
                   /\ inv'[p].issued = <<>>
                   /\ \E x \in FetchedWithinTtl(inv'[p]) : inv'[p].ret = RetResult(x[2])
                   /\ search_cache' = search_cache
          /\ (inv[p].pc = "await" /\ inv[p].op \in ToolOps /\ inv'[p].ret.kind = "result")
                => <<cache_key(inv[p].op, inv[p].query, inv[p].freshness),
                     inv'[p].ret.result[1], now>> \in lastPut'
      ]_vars

\* the third execution in a row answered from the one entry, a tick before
\* it expires
C5_Witness ==
    LET st == inv[MainProc]
        key == cache_key(st.op, st.query, st.freshness)
    IN /\ st.op \in ToolOps /\ st.pc = "done" /\ st.issued = <<>>
       /\ started = 3 /\ Cardinality(lastPut) = 1
       /\ key \in DOMAIN search_cache
       /\ st.ret = RetResult(search_cache[key].value)
       /\ now - search_cache[key].timestamp = cache_ttl - 1

(***************************************************************************)
(* research_search: one backend call per section, the sections fixed by    *)
(* depth; a section whose call raises is reported empty with an error      *)
(* note.                                                                   *)
(***************************************************************************)
Depths == {"light", "medium", "deep"}
TimeRanges == {"recent", "year", "all"}

\* light = web; medium = web + news; deep = web + news + the extra source
DepthSections(depth) ==
    IF depth = "light" THEN <<"web">>
    ELSE IF depth = "medium" THEN <<"web", "news">>
    ELSE <<"web", "news", "extra">>

\* time_range mapped to the nearest supported freshness filter
FreshnessOf(timeRange) ==
    IF timeRange = "recent" THEN <<"pm">>
    ELSE IF timeRange = "year" THEN <<"py">>
    ELSE <<>>

SectionOperation(label) ==
    IF label = "web" THEN "research_web"
    ELSE IF label = "news" THEN "research_news"
    ELSE "research_extra"

SectionKey(st, i) ==
    cache_key(SectionOperation(DepthSections(st.depth)[i]), st.query, st.freshness)

\* one labeled section of the result
Section(label, result, note) == [label |-> label, result |-> result, note |-> note]

\* faulty variant: the BackendError of a section is raised to the caller
SectionFailedRaises(st, kind) == Finish(st, RetRaised(kind))

\* the section whose call raised: empty, with the error as its note
SectionFailed(st, kind) ==
    [st EXCEPT !.sections =
        Append(@, Section(DepthSections(st.depth)[Len(st.sections) + 1], <<>>, kind))]

\* the section whose call returned (or was served from the cache)
SectionFilled(st, result) ==
    [st EXCEPT !.sections =
        Append(@, Section(DepthSections(st.depth)[Len(st.sections) + 1], <<result>>, ""))]

RECURSIVE ResearchLoop(_, _, _, _)
\* run from section i up to the next await or the return
ResearchLoop(st, i, cache, t) ==
    IF st.pc = "done" THEN st
    ELSE IF i > Len(DepthSections(st.depth))
    THEN Finish(st, RetSections)
    ELSE LET hit == CacheLookup(cache, SectionKey(st, i), t)
         IN IF hit = <<>>
            THEN [st EXCEPT !.pc = "await", !.idx = i,
                            !.issued = Append(@, SectionKey(st, i)),
                            !.requests = Append(@, RequestOf(st, st.query, st.freshness,
                                                   DepthSections(st.depth)[i]))]
            ELSE ResearchLoop(
                    SectionFilled([st EXCEPT !.attempts = Append(@, Attempt("hit", hit[1], ""))],
                                  hit[1]),
                    i + 1, cache, t)

\* research_search is entered by a session holding the credential token
ResearchEntry(topic, depth, timeRange, token, cache, t) ==
    LET st == [Idle EXCEPT !.op = "research_search", !.query = topic,
                           !.depth = depth, !.freshness = FreshnessOf(timeRange),
                           !.count = DefaultCount, !.token = token,
                           !.startEmpty = (DOMAIN cache = {})]
    IN IF topic = <<>> THEN Rejected(st) ELSE ResearchLoop(st, 1, cache, t)

\* the rest of research_search once the backend call of section idx has
\* returned or raised; cache is the cache after the write of a success
ResearchEnd(st, outcome, cache, t) ==
    LET result == ResultSet(outcome.records, 0, 0, FALSE)
    IN IF outcome.ok
       THEN ResearchLoop(
               SectionFilled([st EXCEPT !.attempts = Append(@, Attempt("ok", result, ""))],
                             result),
               st.idx + 1, cache, t)
       ELSE ResearchLoop(
               SectionFailed([st EXCEPT !.attempts =
                                           Append(@, Attempt("raised", NoResult, outcome.error)),
                                        !.log = Append(@, LogError(outcome.error))],
                             outcome.error),
               st.idx + 1, cache, t)

ResearchStart(p, topic, depth, includeAcademic, includeNews, timeRange) ==
    /\ inv[p].pc \in {"idle", "done"}
    /\ started < MaxInvocations
    /\ inv' = [inv EXCEPT ![p] =
                 ResearchEntry(topic, depth, timeRange, BRAVE_API_KEY, search_cache, now)]
    /\ started' = started + 1
    /\ UNCHANGED <<search_cache, now, lastPut, got, BRAVE_API_KEY, wire>>

\* the backend call of section idx returns or raises
ResearchReturn(p, outcome) ==
    /\ inv[p].pc = "await"
    /\ inv[p].op = "research_search"
    /\ LET st == inv[p]
           key == SectionKey(st, st.idx)
           result == ResultSet(outcome.records, 0, 0, FALSE)
       IN IF outcome.ok
          THEN LET cache == CacheStore(search_cache, key, result, now)
               IN /\ search_cache' = cache
                  /\ lastPut' = Remember(lastPut, key, result, now)
                  /\ inv' = [inv EXCEPT ![p] = ResearchEnd(st, outcome, cache, now)]
          ELSE /\ inv' = [inv EXCEPT ![p] =
                     ResearchEnd(st, outcome, search_cache, now)]
               /\ UNCHANGED <<search_cache, lastPut>>
    /\ UNCHANGED <<now, got, started, BRAVE_API_KEY, wire>>

Topics == {<<"rust">>, <<>>}

\* the sections treat every BackendError alike and never look at the record
\* count: two kinds and two counts stand for the rest
ResearchOutcomes ==
    {BackendOk(n) : n \in {0, MaxRecords}} \cup {BackendRaise(k) : k \in SmartErrorKinds}

NextResearch ==
    \/ \E topic \in Topics, depth \in Depths, includeAcademic \in BOOLEAN,
          includeNews \in BOOLEAN, timeRange \in {"all", "year"} :
          ResearchStart(MainProc, topic, depth, includeAcademic, includeNews, timeRange)
    \/ \E o \in ResearchOutcomes : ResearchReturn(MainProc, o)
    \/ Clear
    \/ Tick

SpecResearch == Init /\ [][NextResearch]_vars

ResearchInv(st) == st.op = "research_search" /\ st.query # <<>>

\* the number of sections of a depth
SectionCount(depth) ==
    IF depth = "light" THEN 1 ELSE IF depth = "medium" THEN 2 ELSE 3

C10_SectionsDegrade ==
    \A p \in Procs :
        LET st == inv[p]
        IN ResearchInv(st) =>
              /\ st.ret.kind # "raised"
              /\ Len(st.sections) = Len(st.attempts)
              /\ \A i \in 1..Len(st.attempts) :
                    IF st.attempts[i].kind = "raised"
                    THEN /\ st.sections[i].result = <<>>
                         /\ st.sections[i].note # ""
                    ELSE /\ st.sections[i].result = <<st.attempts[i].result>>
                         /\ st.sections[i].note = ""
              /\ st.pc = "done" =>
                    /\ st.ret = RetSections
                    /\ st.reply = ReplyValue
                    /\ Len(st.attempts) = SectionCount(st.depth)

\* a deep search whose news call raised: that section empty, the others filled
C10_Witness ==
    LET st == inv[MainProc]
    IN /\ ResearchInv(st) /\ st.pc = "done" /\ st.depth = "deep"
       /\ st.attempts[1].kind = "ok" /\ st.attempts[2].kind = "raised"
       /\ st.attempts[3].kind = "ok"
       /\ st.sections[2].result = <<>> /\ st.sections[2].note = "Unavailable"
       /\ st.sections[1].result # <<>> /\ st.sections[3].result # <<>>
       /\ st.ret = RetSections

\* every section call of a deep search raised and the search still returned
C10_WitnessAllRaised ==
    LET st == inv[MainProc]
    IN /\ ResearchInv(st) /\ st.pc = "done" /\ st.depth = "deep"
       /\ \A i \in 1..3 : st.attempts[i].kind = "raised"
       /\ st.ret = RetSections

(***************************************************************************)
(* The Tool Facade: the four operations behind one caller, every kind of   *)
(* BackendError among the backend's answers.                               *)
(***************************************************************************)
FacadeOutcomes ==
    {BackendOk(n) : n \in {0, MaxRecords}} \cup {BackendRaise(k) : k \in BackendErrorKinds}

NextFacade ==
    \/ /\ started < MaxInvocations
       /\ \/ \E op \in ToolOps, q \in ToolQueries : ToolStart(MainProc, op, q, <<>>)
          \/ \E q \in ToolQueries, m \in {1, MaxAttemptsArg} :
                SmartStart(MainProc, q, m, MaxRecords)
          \/ \E topic \in Topics, depth \in Depths :
                ResearchStart(MainProc, topic, depth, TRUE, TRUE, "all")
    \/ \E o \in FacadeOutcomes :
          \/ ToolReturn(MainProc, o)
          \/ SmartReturn(MainProc, o)
          \/ ResearchReturn(MainProc, o)
    \/ Clear
    \/ Tick

SpecFacade == Init /\ [][NextFacade]_vars

\* the step starts an invocation of p and nothing else
Starts(p) ==
    /\ started' = started + 1
    /\ inv'[p].op # "none"
    /\ \A q \in Procs \ {p} : inv'[q] = inv[q]

(***************************************************************************)
(* C11: a call of any of the four operations with an empty query or topic  *)
(* returns an {error: string} object as its value, raises nothing, issues  *)
(* no backend call and leaves the cache unchanged.                         *)
(***************************************************************************)
C11_EmptyQueryRejected ==
    [][\A p \in Procs :
          (Starts(p) /\ inv'[p].query = <<>>) =>
              /\ inv'[p].pc = "done"
              /\ inv'[p].reply.shape = "error" /\ inv'[p].reply.error # ""
              /\ inv'[p].ret = NoRet
              /\ inv'[p].issued = <<>> /\ inv'[p].requests = <<>>
              /\ search_cache' = search_cache /\ lastPut' = lastPut
      ]_vars

\* research_search with an empty topic was turned away over a filled cache
C11_Witness ==
    LET st == inv[MainProc]
    IN /\ st.op = "research_search" /\ st.query = <<>>
       /\ st.pc = "done" /\ st.reply.shape = "error"
       /\ search_cache # EmptyCache

\* smart_search with an empty query was turned away
C11_WitnessSmart ==
    LET st == inv[MainProc]
    IN /\ st.op = "smart_search" /\ st.query = <<>>
       /\ st.pc = "done" /\ st.reply.shape = "error"

\* web_search or news_search with an empty query was turned away
C11_WitnessTool ==
    LET st == inv[MainProc]
    IN /\ st.op \in ToolOps /\ st.query = <<>>
       /\ st.pc = "done" /\ st.reply.shape = "error"

(***************************************************************************)
(* C12: whatever kind of BackendError escapes the layers below, the call   *)
(* of any of the four operations returns an {error: string} object; no     *)
(* call ends by raising an internal error to the external caller.          *)
(***************************************************************************)
C12_ErrorsBecomeObjects ==
    \A p \in Procs :
        LET st == inv[p]
        IN st.pc = "done" =>
              /\ st.reply.shape \in {"value", "error"}
              /\ st.ret.kind = "raised" =>
                    /\ st.ret.error \in BackendErrorKinds
                    /\ st.reply = ReplyError(st.ret.error)
              /\ st.reply.shape = "error" =>
                    st.reply.error \in BackendErrorKinds \cup {"query is required"}
              /\ (st.op \in ToolOps /\ st.requests # <<>> /\ st.ret.kind # "result") =>
                    /\ st.ret.kind = "raised"
                    /\ st.reply.shape = "error"

\* news_search whose only backend call raised Malformed answered the error object
C12_Witness ==
    LET st == inv[MainProc]
    IN /\ st.op = "news_search" /\ st.pc = "done" /\ Len(st.requests) = 1
       /\ st.ret = RetRaised("Malformed")
       /\ st.reply = ReplyError("Malformed")

\* smart_search whose strategies all raised Unauthorized answered the
\* aggregated error as an error object
C12_WitnessSmart ==
    LET st == inv[MainProc]
    IN /\ st.op = "smart_search" /\ st.pc = "done"
       /\ Len(st.attempts) = MaxAttemptsArg
       /\ \A i \in 1..Len(st.attempts) : st.attempts[i].error = "Unauthorized"
       /\ st.reply = ReplyError("Unavailable")

\* web_search whose backend call raised InvalidRequest answered the error object
C12_WitnessKinds ==
    LET st == inv[MainProc]
    IN /\ st.op = "web_search" /\ st.pc = "done"
       /\ st.reply.shape = "error"
       /\ st.reply.error = "InvalidRequest"

\* the backend calls st had issued when its attempt i ended
CallsUpTo(st, i) == Cardinality({j \in 1..i : st.attempts[j].kind # "hit"})

\* the strategies or sections st goes through
Planned(st) ==
    IF st.op = "smart_search" THEN Len(ListOf(st))
    ELSE IF st.op = "research_search" THEN SectionCount(st.depth)
    ELSE 1

C13_WitnessResearch ==
    LET st == inv[MainProc]
    IN /\ st.op = "research_search" /\ st.depth = "medium"
       /\ Len(st.attempts) >= 1 /\ st.attempts[1].error = "RateLimited"
       /\ Len(st.requests) = 2

(***************************************************************************)
(* The Search Backend Client under web_search and news_search: the         *)
(* provider's answers are raw HTTP responses.                              *)
(***************************************************************************)
NextClient ==
    \/ \E op \in ToolOps, q \in ToolQueries, f \in ToolFreshness :
          ToolStart(MainProc, op, q, f)
    \/ \E response \in Responses : ToolRespond(MainProc, response)
    \/ Clear
    \/ Tick

SpecClient == Init /\ [][NextClient]_vars

(***************************************************************************)
(* C14: the client maps every backend outcome to exactly one result: 401   *)
(* or 403 to Unauthorized, 429 to RateLimited, any other 4xx to            *)
(* InvalidRequest, 5xx, timeout or connection failure to Unavailable, an   *)
(* unparseable or schema-mismatched body to Malformed, and a well-formed   *)
(* success response to a ResultSet, an empty one when it holds no records. *)
(***************************************************************************)
C14_ClientMapping ==
    LET r == wire.response
        o == wire.outcome
        st == inv[MainProc]
    IN wire # NoExchange =>
          /\ r.transport \in {"timeout", "connection"} => o = BackendRaise("Unavailable")
          /\ r.transport = "ok" =>
                /\ r.status \in {401, 403} => o = BackendRaise("Unauthorized")
                /\ r.status = 429 => o = BackendRaise("RateLimited")
                /\ r.status \in {400, 404, 422} => o = BackendRaise("InvalidRequest")
                /\ r.status \in {500, 503} => o = BackendRaise("Unavailable")
                /\ (r.status = 200 /\ r.body \in {"garbled", "mismatch"})
                      => o = BackendRaise("Malformed")
                /\ (r.status = 200 /\ r.body = "json") => o = BackendOk(r.records)
          /\ (st.pc = "done" /\ st.requests # <<>>) =>
                IF o.ok
                THEN /\ st.ret.kind = "result"
                     /\ st.ret.result[1].records = r.records
                     /\ st.reply = ReplyValue
                ELSE /\ st.ret = RetRaised(o.error)
                     /\ st.reply = ReplyError(o.error)

\* a well-formed success response without records came back as an empty ResultSet
C14_Witness ==
    LET st == inv[MainProc]
    IN /\ wire.response = HttpResponse("ok", 200, "json", 0)
       /\ st.pc = "done" /\ st.requests # <<>>
       /\ st.ret.kind = "result" /\ st.ret.result[1].records = 0
       /\ st.reply = ReplyValue

\* status 429 with a body that does not parse came back as RateLimited
C14_WitnessRateLimited ==
    LET st == inv[MainProc]
    IN /\ wire.response = HttpResponse("ok", 429, "garbled", 0)
       /\ st.pc = "done" /\ st.ret = RetRaised("RateLimited")

(***************************************************************************)
(* Concurrent invocations of web_search and news_search: cooperative       *)
(* tasks that interleave at their awaits and share the one cache.          *)
(***************************************************************************)
\* the two invocations that run concurrently
Racers == {MainProc, MainProc + 1}

NextRace ==
    \/ \E p \in Racers, op \in ToolOps, q \in ToolQueries : ToolStart(p, op, q, <<>>)
    \/ \E p \in Racers, o \in BackendOutcomes : ToolReturn(p, o)
    \/ Clear
    \/ Tick

SpecRace == Init /\ [][NextRace]_vars

ToolKey(st) == cache_key(st.op, st.query, st.freshness)

\* every finished tool call ends on its one attempt: its own backend call's
\* ResultSet or error, or a cached ResultSet; and where two finished calls
\* both got a ResultSet for one key, the entry of the key holds one of the two
RaceState ==
    /\ \A p \in Procs :
          LET st == inv[p]
          IN (st.op \in ToolOps /\ st.query # <<>> /\ st.pc = "done") =>
                /\ Len(st.attempts) = 1
                /\ st.attempts[1].kind = "raised" <=> st.ret.kind = "raised"
                /\ st.attempts[1].kind = "raised" => st.ret.error = st.attempts[1].error
                /\ st.attempts[1].kind # "raised" => st.ret = RetResult(st.attempts[1].result)
                /\ st.attempts[1].kind = "hit" <=> st.requests = <<>>
    /\ \A p, q \in Racers :
          LET sp == inv[p]
              sq == inv[q]
          IN (/\ p # q
              /\ sp.op \in ToolOps /\ sq.op \in ToolOps
              /\ sp.pc = "done" /\ sq.pc = "done"
              /\ sp.ret.kind = "result" /\ sq.ret.kind = "result"
              /\ ToolKey(sp) = ToolKey(sq)
              /\ ToolKey(sp) \in DOMAIN search_cache) =>
                 search_cache[ToolKey(sp)].value \in {sp.ret.result[1], sq.ret.result[1]}

(***************************************************************************)
(* C15: two invocations with the same cache key running concurrently may   *)
(* both miss and both call the backend; in every interleaving each returns *)
(* the ResultSet its own backend call produced or a cached one, neither    *)
(* fails because of the other, and the cache is left with a single valid   *)
(* entry for the key whose value is one of the fetched ResultSets.         *)
(***************************************************************************)
C15_RaceIsBenign ==
    [][/\ RaceState'
       /\ \A p \in Procs :
             (inv[p].pc = "await" /\ inv[p].op \in ToolOps /\ inv'[p].pc = "done"
                /\ inv'[p].ret.kind = "result") =>
                 /\ ToolKey(inv[p]) \in DOMAIN search_cache'
                 /\ search_cache'[ToolKey(inv[p])] =
                        [value |-> inv'[p].ret.result[1], timestamp |-> now]
                 /\ is_cache_valid(search_cache'[ToolKey(inv[p])].timestamp, now')
      ]_vars

\* both invocations missed on the same key and both have a backend call in flight
C15_Witness ==
    /\ \A p \in Racers : inv[p].pc = "await" /\ inv[p].op = "web_search"
    /\ \A p, q \in Racers : inv[p].issued = inv[q].issued

\* both calls came back with different ResultSets and the entry holds the
\* one written last, the first caller's
C15_WitnessOverwritten ==
    /\ \A p \in Racers : inv[p].pc = "done" /\ inv[p].op = "web_search"
                          /\ Len(inv[p].requests) = 1 /\ inv[p].ret.kind = "result"
    /\ ToolKey(inv[1]) = ToolKey(inv[2])
    /\ inv[1].ret.result[1].records = MaxRecords
    /\ inv[2].ret.result[1].records = 0
    /\ ToolKey(inv[1]) \in DOMAIN search_cache
    /\ search_cache[ToolKey(inv[1])].value = inv[1].ret.result[1]

\* one of the two racing calls failed and the other still got its ResultSet
C15_WitnessOneFailed ==
    /\ \A p \in Racers : inv[p].pc = "done" /\ inv[p].op = "web_search"
                          /\ Len(inv[p].requests) = 1
    /\ ToolKey(inv[1]) = ToolKey(inv[2])
    /\ inv[1].ret.kind = "raised"
    /\ inv[2].ret.kind = "result"

\* the step ends the backend call p had in flight
CallEnds(p) ==
    /\ inv[p].pc = "await"
    /\ Len(inv'[p].attempts) > Len(inv[p].attempts)

\* the attempt that the call p had in flight has become
EndedAttempt(p) == inv'[p].attempts[Len(inv[p].attempts) + 1]

\* the key of the backend call p has in flight
KeyInFlight(p) == inv[p].issued[Len(inv[p].issued)]

\* the entries of cache, as a set of <<key, entry>>
Entries(cache) == {<<k, cache[k]>> : k \in DOMAIN cache}

(***************************************************************************)
(* C16: a cache entry for a key comes into existence only when a backend   *)
(* call for that key returns successfully; a backend call that ends in a   *)
(* BackendError of any kind leaves the cache exactly as it was, and an     *)
(* entry is removed only by clear(), never by a get, by expiry or by a     *)
(* failed call.                                                            *)
(***************************************************************************)
C16_CacheFrame ==
    [][/\ \A e \in Entries(search_cache') \ Entries(search_cache) :
             \E p \in Procs :
                 /\ CallEnds(p) /\ EndedAttempt(p).kind = "ok"
                 /\ e[1] = KeyInFlight(p)
                 /\ e[2] = [value |-> EndedAttempt(p).result, timestamp |-> now]
       /\ \A p \in Procs :
             (CallEnds(p) /\ EndedAttempt(p).kind = "raised") =>
                 search_cache' = search_cache
       /\ (DOMAIN search_cache \ DOMAIN search_cache' # {}) =>
             /\ search_cache' = EmptyCache
             /\ inv' = inv /\ now' = now /\ started' = started
       /\ (now' # now \/ started' # started) => search_cache' = search_cache
      ]_vars

\* a call that ended in Malformed left the entries of an earlier search in place
C16_Witness ==
    LET st == inv[MainProc]
    IN /\ st.pc = "done" /\ st.op = "web_search"
       /\ Len(st.attempts) = 1 /\ st.attempts[1].error = "Malformed"
       /\ search_cache # EmptyCache
       /\ ToolKey(st) \notin DOMAIN search_cache

\* an entry past its time-to-live is still stored
C16_WitnessExpired ==
    \E k \in DOMAIN search_cache : ~is_cache_valid(search_cache[k].timestamp, now)

(***************************************************************************)
(* The requests that reach the provider, for callers that pass any count,  *)
(* offset and freshness.                                                   *)
(***************************************************************************)
\* count: Results per page (1-20)
MaxCount == 20

\* what a caller may pass: values inside and outside the documented ranges
CallerCounts == {0, 1, MaxCount, MaxCount + 1}
CallerOffsets == {-1, 0}
CallerFreshness == {<<>>, <<"xx">>}

NextRequest ==
    \/ /\ started < MaxInvocations
       /\ \/ \E count \in CallerCounts, offset \in CallerOffsets, f \in CallerFreshness :
                ToolCall(MainProc, "web_search", <<"rust">>, count, offset, f)
          \/ SmartStart(MainProc, <<"rust">>, MaxAttemptsArg, MaxRecords)
          \/ \E timeRange \in TimeRanges :
                ResearchStart(MainProc, <<"rust">>, "medium", TRUE, TRUE, timeRange)
    \/ \E o \in ResearchOutcomes :
          \/ ToolReturn(MainProc, o)
          \/ SmartReturn(MainProc, o)
          \/ ResearchReturn(MainProc, o)
    \/ Clear
    \/ Tick

SpecRequest == Init /\ [][NextRequest]_vars

(***************************************************************************)
(* C17: every request any of the four operations sends to the search       *)
(* backend, whatever the caller passed and whatever strategy or timeRange  *)
(* mapping was applied, has count in 1..20, offset >= 0 and freshness in   *)
(* {pd, pw, pm, py, none}.                                                 *)
(***************************************************************************)
C17_RequestsWithinLimits ==
    \A p \in Procs :
        \A i \in 1..Len(inv[p].requests) :
            LET r == inv[p].requests[i]
            IN /\ r.count \in 1..MaxCount
               /\ r.offset >= 0
               /\ r.freshness \in Freshness

(***************************************************************************)
(* The search tools under any configuration: the credential is whatever    *)
(* the environment holds when the process starts, possibly nothing.        *)
(***************************************************************************)
InitEnv ==
    /\ search_cache = EmptyCache
    /\ now = 0
    /\ inv = [p \in Procs |-> Idle]
    /\ lastPut = {}
    /\ got = [key |-> <<>>, value |-> <<>>, at |-> 0]
    /\ started = 0
    /\ BRAVE_API_KEY \in ApiKeys
    /\ wire = NoExchange

\* what the provider answers to a request: without a credential, status 422
\* ("API request failed with status 422"), unless the transport fails
ProviderAnswers(request) ==
    IF request.token = NoKey
    THEN {HttpResponse("ok", 422, "json", 0), HttpResponse("timeout", 0, "garbled", 0)}
    ELSE Responses

NextEnv ==
    \/ \E op \in ToolOps, q \in ToolQueries, f \in ToolFreshness :
          ToolStart(MainProc, op, q, f)
    \/ /\ inv[MainProc].requests # <<>>
       /\ \E response \in ProviderAnswers(inv[MainProc].requests[1]) :
             ToolRespond(MainProc, response)
    \/ Clear
    \/ Tick

SpecEnv == InitEnv /\ [][NextEnv]_vars

(***************************************************************************)
(* C18: when the provider credential is absent from the configuration, no  *)
(* operation ever sends a request to the search backend.                   *)
(***************************************************************************)
C18_NoRequestWithoutKey ==
    BRAVE_API_KEY = NoKey => \A p \in Procs : inv[p].requests = <<>>

(***************************************************************************)
(* Two runs side by side: the same calls at the same times and the same    *)
(* provider answers, under two different credentials. MainProc is the run  *)
(* under BRAVE_API_KEY, every other process the run under another          *)
(* credential; search_cache is the cache of MainProc's run.                *)
(***************************************************************************)
\* the rest of an invocation once its backend call has returned or raised
End(st, outcome, cache, t) ==
    IF st.op \in ToolOps THEN ToolEnd(st, outcome)
    ELSE IF st.op = "smart_search" THEN SmartEnd(st, outcome, cache, t)
    ELSE ResearchEnd(st, outcome, cache, t)

\* the result set made of a backend call of st that returned
Fetched(st, outcome) ==
    IF st.op = "smart_search" THEN FreshResult(outcome.records, st.idx)
    ELSE ResultSet(outcome.records, 0, 0, FALSE)

\* the cache once the backend call st has in flight has ended in outcome
CacheAfter(st, outcome, cache, t) ==
    IF outcome.ok
    THEN CacheStore(cache, st.issued[Len(st.issued)], Fetched(st, outcome), t)
    ELSE cache

\* the answers the two runs receive
TwinAnswers ==
    {HttpResponse("ok", 200, "json", n) : n \in {0, MaxRecords}}
        \cup {HttpResponse("ok", 401, "json", 0), HttpResponse("timeout", 0, "garbled", 0)}

\* the same call enters both runs: mine under BRAVE_API_KEY, twin under another key
TwinBegin(mine, twin) ==
    /\ \A p \in Procs : inv[p].pc \in {"idle", "done"}
    /\ started < MaxInvocations
    /\ inv' = [p \in Procs |-> IF p = MainProc THEN mine ELSE twin]
    /\ started' = started + 1
    /\ UNCHANGED <<search_cache, now, lastPut, got, BRAVE_API_KEY, wire>>

\* the same answer reaches the backend call each run has in flight
TwinRespond(response) ==
    /\ inv[MainProc].pc = "await"
    /\ LET outcome == make_brave_request(response)
           st == inv[MainProc]
       IN /\ inv' = [p \in Procs |->
                       IF inv[p].pc = "await"
                       THEN End(inv[p], outcome,
                                CacheAfter(inv[p], outcome, search_cache, now), now)
                       ELSE inv[p]]
          /\ search_cache' = CacheAfter(st, outcome, search_cache, now)
          /\ lastPut' = IF outcome.ok
                        THEN Remember(lastPut, st.issued[Len(st.issued)],
                                      Fetched(st, outcome), now)
                        ELSE lastPut
    /\ wire' = Exchange(response)
    /\ UNCHANGED <<now, got, started, BRAVE_API_KEY>>

\* the credential of the second run: another one, present or absent
TwinKey(key) ==
    IF key = NoKey THEN ConfiguredKey
    ELSE IF key = ConfiguredKey THEN CHOOSE k \in ApiKeys : k \notin {NoKey, ConfiguredKey}
    ELSE NoKey

\* web_search, smart_search and research_search entered in both runs
TwinTool(q) ==
    TwinBegin(ToolEntry("web_search", q, DefaultCount, 0, <<>>, BRAVE_API_KEY,
                        search_cache, now),
              ToolEntry("web_search", q, DefaultCount, 0, <<>>, TwinKey(BRAVE_API_KEY),
                        search_cache, now))

TwinSmart(q) ==
    TwinBegin(SmartEntry(q, MaxAttemptsArg, MaxRecords, BRAVE_API_KEY, search_cache, now),
              SmartEntry(q, MaxAttemptsArg, MaxRecords, TwinKey(BRAVE_API_KEY),
                         search_cache, now))

TwinResearch(topic) ==
    TwinBegin(ResearchEntry(topic, "quick", "all", BRAVE_API_KEY, search_cache, now),
              ResearchEntry(topic, "quick", "all", TwinKey(BRAVE_API_KEY),
                            search_cache, now))

NextTwin ==
    \/ \E q \in Topics : TwinTool(q)
    \/ \E q \in Topics : TwinSmart(q)
    \/ \E topic \in Topics : TwinResearch(topic)
    \/ \E response \in TwinAnswers : TwinRespond(response)
    \/ Clear
    \/ Tick

SpecTwin == InitEnv /\ [][NextTwin]_vars

\* what the caller and the log of an invocation show
Visible(st) ==
    [reply |-> st.reply, ret |-> st.ret, sections |-> st.sections, log |-> st.log]

\* the credential key stands in what the invocation shows
Mentions(st, key) ==
    \/ st.reply.error = key
    \/ \E i \in DOMAIN st.log : \E j \in DOMAIN st.log[i] : st.log[i][j] = key

C19_WitnessSmart ==
    /\ \A p \in Procs :
          /\ inv[p].pc = "done" /\ inv[p].op = "smart_search"
          /\ inv[p].ret.kind = "result" /\ inv[p].log # <<>>
          /\ Len(inv[p].requests) >= 2
    /\ \A p \in Procs \ {MainProc} :
          inv[p].requests[1].token # inv[MainProc].requests[1].token

(***************************************************************************)
(* smart_search with backend calls that come back: every call the loop     *)
(* awaits returns or fails in the end (the HTTP transport times out).      *)
(* The clock stands still: the order and the number of the calls do not    *)
(* depend on the age of the entries, only on which keys are held.          *)
(***************************************************************************)
NextSmartRun ==
    \/ \E m \in 1..MaxAttemptsArg : SmartStart(MainProc, <<"rust">>, m, MaxRecords)
    \/ \E o \in SmartOutcomes : SmartReturn(MainProc, o)
    \/ Clear

SpecSmartFair ==
    /\ Init
    /\ [][NextSmartRun]_vars
    /\ WF_vars(\E o \in SmartOutcomes : SmartReturn(MainProc, o))

\* the place of request r in the list of the invocation st: 1 the query as
\* given, 2 the query in quotes, 3 the query with the recency filter, else 0
StrategyRank(st, r) ==
    IF r.q = st.query /\ r.freshness = <<>> THEN 1
    ELSE IF r.q = <<QUOTE>> \o st.query \o <<QUOTE>> /\ r.freshness = <<>> THEN 2
    ELSE IF r.q = st.query /\ r.freshness = <<"py">> THEN 3
    ELSE 0

\* the backend calls of st are within max_attempts, one per strategy at
\* most and in list order, and a finished invocation has its reply
CallsInOrder(st) ==
    /\ Len(st.requests) <= st.maxAttempts
    /\ CallsOf(st) = Len(st.requests)
    /\ \A j \in 1..Len(st.requests) :
          /\ StrategyRank(st, st.requests[j]) \in 1..st.maxAttempts
          /\ \A k \in 1..Len(st.requests) :
                j < k => StrategyRank(st, st.requests[j]) < StrategyRank(st, st.requests[k])
    /\ st.pc = "done" =>
          \/ st.reply.shape = "value" /\ st.ret.kind = "result"
          \/ st.reply.shape = "error" /\ st.ret.kind = "raised"

C20_WitnessCapped ==
    LET st == inv[MainProc]
    IN /\ SmartInv(st) /\ st.pc = "done" /\ st.maxAttempts = 2
       /\ Len(st.requests) = 2 /\ st.ret.kind = "raised"

\* a valid cache entry for the first strategy: the calls start at the second
C20_WitnessSkipped ==
    LET st == inv[MainProc]
    IN /\ SmartInv(st) /\ st.pc = "done"
       /\ Len(st.requests) = 2
       /\ StrategyRank(st, st.requests[1]) = 2

(***************************************************************************)
(* Reads of the cache: what a hit hands to the caller and what the entry   *)
(* holds afterwards.                                                       *)
(***************************************************************************)
\* the attempts p has logged in the step
NewAttempts(p) ==
    IF inv'[p] = inv[p] THEN {}
    ELSE IF inv[p].pc = "await"
         THEN (Len(inv[p].attempts) + 1)..Len(inv'[p].attempts)
         ELSE 1..Len(inv'[p].attempts)

\* the cache key of attempt i of st
AttemptKey(st, i) ==
    IF st.op \in ToolOps THEN ToolKey(st)
    ELSE IF st.op = "smart_search"
         THEN StrategyKey(StrategyList(st.query, st.maxAttempts)[i])
         ELSE SectionKey(st, i)

C21_WitnessTool ==
    LET st == inv[MainProc]
    IN /\ st.op = "web_search" /\ st.pc = "done" /\ st.requests = <<>>
       /\ Len(st.attempts) = 1 /\ st.attempts[1].kind = "hit"
       /\ search_cache[ToolKey(st)].value = st.ret.result[1]

(***************************************************************************)
(* Two callers of the search tools that choose their own count and         *)
(* freshness.                                                              *)
(***************************************************************************)
NextKeys ==
    \/ \E p \in Racers, op \in ToolOps, count \in {1, MaxCount}, f \in {<<>>, <<"py">>} :
          ToolCall(p, op, <<"rust">>, count, 0, f)
    \/ \E p \in Racers, o \in {BackendOk(MaxRecords), BackendRaise("Unavailable")} :
          ToolReturn(p, o)
    \/ Clear
    \/ Tick

SpecKeys == Init /\ [][NextKeys]_vars

\* the operation and the parameters of the call st
CallParams(st) ==
    [operation |-> st.op, query |-> st.query, count |-> st.count,
     offset |-> st.offset, freshness |-> st.freshness]

C23_WitnessRaisedLast ==
    LET st == inv[MainProc]
    IN /\ SmartInv(st) /\ st.pc = "done"
       /\ Len(st.attempts) = 2
       /\ st.attempts[1].kind = "ok" /\ st.attempts[1].result.records = 1
       /\ st.attempts[2].kind = "raised"
       /\ st.ret.kind = "result" /\ st.ret.result[1].records = 1

\* the entry of key is stored and past its time-to-live
Expired(cache, key, t) ==
    key \in DOMAIN cache /\ ~is_cache_valid(cache[key].timestamp, t)

(***************************************************************************)
(* C24: once the entry of a key has expired, the next request with that    *)
(* key issues a backend call; if the call succeeds the entry is            *)
(* overwritten with the new value and a new timestamp, so that a request   *)
(* within the time-to-live of the new entry is served the new value from   *)
(* the cache; the expired value is never returned again.                   *)
(***************************************************************************)
C24_ExpiredEntryRefetched ==
    [][\A p \in Procs :
          LET st == inv'[p]
              key == ToolKey(st)
          IN (st.op \in ToolOps /\ st.query # <<>>) =>
                \* a call on an expired entry goes to the backend
                /\ (Starts(p) /\ Expired(search_cache, key, now)) =>
                      /\ st.pc = "await" /\ st.attempts = <<>>
                      /\ Len(st.requests) = 1
                \* the call that returned overwrites the entry, value and timestamp
                /\ (CallEnds(p) /\ EndedAttempt(p).kind = "ok") =>
                      /\ search_cache'[key] =
                            [value |-> st.ret.result[1], timestamp |-> now]
                      /\ is_cache_valid(search_cache'[key].timestamp, now)
                      /\ Expired(search_cache, key, now) =>
                            search_cache'[key].timestamp > search_cache[key].timestamp
                \* what is served from the cache is the latest put, within its time-to-live
                /\ (Starts(p) /\ st.pc = "done") =>
                      /\ ~Expired(search_cache, key, now)
                      /\ st.ret.result[1] = search_cache[key].value
                      /\ <<key, st.ret.result[1], search_cache[key].timestamp>> \in lastPut
      ]_vars

\* the entry of the key has expired and the request of the next call is out
C24_Witness ==
    LET st == inv[MainProc]
    IN /\ st.op \in ToolOps /\ st.pc = "await"
       /\ Expired(search_cache, ToolKey(st), now)
       /\ Len(st.requests) = 1

\* the third call is served the entry that the second call stored after the
\* first entry had run out
C24_WitnessServed ==
    LET st == inv[MainProc]
    IN /\ st.op \in ToolOps /\ st.pc = "done" /\ started = 3
       /\ Len(st.attempts) = 1 /\ st.attempts[1].kind = "hit"
       /\ DOMAIN search_cache = {ToolKey(st)}
       /\ search_cache[ToolKey(st)].timestamp >= cache_ttl
       /\ st.ret.result[1] = search_cache[ToolKey(st)].value

(***************************************************************************)
(* The server as a whole: every operation, one flow at a time.             *)
(***************************************************************************)
Next ==
    \/ NextCache
    \/ NextTool
    \/ NextSmart
    \/ NextResearch

Spec == Init /\ [][Next]_vars

=============================================================================
